---- MODULE Spec2Model ----
(***************************************************************************)
(* SWRL_Viz: conversion of a SWRL rule string into DOT graph text.         *)
(*                                                                         *)
(* Text is modelled as a sequence of one-character strings, so that the    *)
(* splitting, trimming and regular-expression matching of the source are   *)
(* computed character by character.  The emitted DOT text is a sequence of *)
(* pieces: every character that comes from the rule is one piece, every    *)
(* double quote written by a template is the piece "\"" and the remaining  *)
(* template text is cut into fixed fragments; the text is the              *)
(* concatenation of the pieces.                                            *)
(***************************************************************************)
EXTENDS Integers, Sequences, FiniteSets, TLC

None == "None"
\* the value None where the other values are texts
NoText == <<"None">>
\* no exception
NoError == <<>>

\* ------------------------------------------------------------------------
\* Characters
\* ------------------------------------------------------------------------

\* The characters of the model, in code point order (Python compares
\* strings by code point).
CharOrder ==
  <<"\n", " ", "\"", "(", ")", ",", "-", ".", "0", "5", ":", ">", "?",
    "B", "C", "^", "_", "a", "f", "h", "p", "x", "y", "z">>

Ord(c) == CHOOSE i \in 1..Len(CharOrder) : CharOrder[i] = c

\* \w of the regular expressions
IsWord(c) == c \in {"0", "5", "B", "C", "_", "a", "f", "h", "p", "x", "y", "z"}

\* \s of the regular expressions, and the characters str.strip() removes
IsSpace(c) == c \in {" ", "\n"}

Min(S) == CHOOSE x \in S : \A y \in S : x <= y
Max(S) == CHOOSE x \in S : \A y \in S : x >= y

\* str < str of Python: lexicographic by code point, a proper prefix first
StrLess(s, t) ==
  \E i \in 1..(Len(t)) :
     /\ i <= Len(s) + 1
     /\ \A j \in 1..(i-1) : s[j] = t[j]
     /\ \/ i = Len(s) + 1
        \/ i <= Len(s) /\ Ord(s[i]) < Ord(t[i])

\* sorted(S) for a set of strings
RECURSIVE Sorted(_)
Sorted(S) ==
  IF S = {} THEN <<>>
  ELSE LET m == CHOOSE x \in S : \A y \in S \ {x} : StrLess(x, y)
       IN <<m>> \o Sorted(S \ {m})

\* str.startswith('?')
StartsWithQ(s) == Len(s) >= 1 /\ s[1] = "?"

\* str.strip()
Strip(s) ==
  LET keep == {i \in 1..Len(s) : ~IsSpace(s[i])}
  IN IF keep = {} THEN <<>> ELSE SubSeq(s, Min(keep), Max(keep))

\* ------------------------------------------------------------------------
\* parse_swrl_rule
\* ------------------------------------------------------------------------

\* position of the first '->' at or after position i, 0 when there is none
FindArrow(s, i) ==
  LET hits == {j \in i..(Len(s)-1) : s[j] = "-" /\ s[j+1] = ">"}
  IN IF hits = {} THEN 0 ELSE Min(hits)

\* rule.split('->')
RECURSIVE SplitArrow(_)
SplitArrow(s) ==
  LET j == FindArrow(s, 1)
  IN IF j = 0 THEN <<s>>
     ELSE <<SubSeq(s, 1, j-1)>> \o SplitArrow(SubSeq(s, j+2, Len(s)))

\* re.split(r'\s*\^\s*', s): the leftmost match starts at the white space
\* before the first '^' and ends after the white space that follows it
RECURSIVE SplitCaret(_)
SplitCaret(s) ==
  LET carets == {j \in 1..Len(s) : s[j] = "^"}
  IN IF carets = {} THEN <<s>>
     ELSE LET c == Min(carets)
              before == {j \in 1..(c-1) : ~IsSpace(s[j])}
              first == IF before = {} THEN 0 ELSE Max(before)
              after == {j \in (c+1)..Len(s) : ~IsSpace(s[j])}
              next == IF after = {} THEN Len(s) + 1 ELSE Min(after)
          IN <<SubSeq(s, 1, first)>> \o SplitCaret(SubSeq(s, next, Len(s)))

StripAll(atoms) == [i \in 1..Len(atoms) |-> Strip(atoms[i])]

\* parse_swrl_rule with the test "len(parts) < 2": only a missing '->' is an error
parse_swrl_rule_missingOnly(rule) ==
  LET parts == SplitArrow(rule)
  IN IF Len(parts) < 2
     THEN [ok |-> FALSE, antecedent_atoms |-> <<>>, consequent_atoms |-> <<>>]
     ELSE [ok |-> TRUE,
           antecedent_atoms |-> StripAll(SplitCaret(Strip(parts[1]))),
           consequent_atoms |-> StripAll(SplitCaret(Strip(parts[2])))]

\* parse_swrl_rule: the two atom lists, or the ValueError
parse_swrl_rule(rule) ==
  LET parts == SplitArrow(rule)
  IN IF Len(parts) # 2
     THEN [ok |-> FALSE, antecedent_atoms |-> <<>>, consequent_atoms |-> <<>>]
     ELSE [ok |-> TRUE,
           antecedent_atoms |-> StripAll(SplitCaret(Strip(parts[1]))),
           consequent_atoms |-> StripAll(SplitCaret(Strip(parts[2])))]

\* ------------------------------------------------------------------------
\* parse_atom
\* ------------------------------------------------------------------------

\* length of the run of \w characters that starts at position i
WordRun(s, i) ==
  LET stop == {j \in i..Len(s) : ~IsWord(s[j])}
  IN (IF stop = {} THEN Len(s) + 1 ELSE Min(stop)) - i

SpaceRun(s, i) ==
  LET stop == {j \in i..Len(s) : ~IsSpace(s[j])}
  IN (IF stop = {} THEN Len(s) + 1 ELSE Min(stop)) - i

At(s, i) == IF i >= 1 /\ i <= Len(s) THEN s[i] ELSE None

\* the common head of both patterns, matched at the start of the atom:
\* (\w+):(\w+)\((\?\w+)   ; pos is the position after the variable
MatchHead(s) ==
  LET n1 == WordRun(s, 1)
      p2 == n1 + 2
      n2 == WordRun(s, p2)
      p3 == p2 + n2 + 2
      n3 == WordRun(s, p3)
  IN IF /\ n1 >= 1 /\ At(s, n1 + 1) = ":"
        /\ n2 >= 1 /\ At(s, p2 + n2) = "("
        /\ At(s, p2 + n2 + 1) = "?"
        /\ n3 >= 1
     THEN [ok |-> TRUE,
           prefix |-> SubSeq(s, 1, n1),
           name |-> SubSeq(s, p2, p2 + n2 - 1),
           var |-> SubSeq(s, p3 - 1, p3 + n3 - 1),
           pos |-> p3 + n3]
     ELSE [ok |-> FALSE, prefix |-> <<>>, name |-> <<>>, var |-> <<>>, pos |-> 0]

\* re.match(class_pattern, atom): (\w+):(\w+)\((\?\w+)\)
ClassMatch(atom) ==
  LET h == MatchHead(atom)
  IN h.ok /\ At(atom, h.pos) = ")"

\* the object group of property_pattern after the comma at position pos:
\* \s* takes the longest run of white space that still lets (.+?)\) match,
\* (.+?) then takes the fewest characters (none of them a newline) up to a ')'
ObjectEnds(atom, start) ==
  {j \in (start+1)..Len(atom) :
      atom[j] = ")" /\ \A m \in start..(j-1) : atom[m] # "\n"}

ObjectSkips(atom, p) ==
  {k \in 0..SpaceRun(atom, p) : ObjectEnds(atom, p + k) # {}}

\* re.match(property_pattern, atom): (\w+):(\w+)\((\?\w+),\s*(.+?)\)
PropertyMatch(atom) ==
  LET h == MatchHead(atom)
  IN h.ok /\ At(atom, h.pos) = "," /\ ObjectSkips(atom, h.pos + 1) # {}

PropertyObject(atom) ==
  LET h == MatchHead(atom)
      start == h.pos + 1 + Max(ObjectSkips(atom, h.pos + 1))
  IN SubSeq(atom, start, Min(ObjectEnds(atom, start)) - 1)

parse_atom(atom) ==
  IF ClassMatch(atom)
  THEN LET h == MatchHead(atom)
       IN [type |-> "class", prefix |-> h.prefix, name |-> h.name,
           variable |-> h.var, object |-> <<>>]
  ELSE IF PropertyMatch(atom)
  THEN LET h == MatchHead(atom)
       IN [type |-> "property", prefix |-> h.prefix, name |-> h.name,
           variable |-> h.var, object |-> Strip(PropertyObject(atom))]
  ELSE [type |-> "error", prefix |-> <<>>, name |-> <<>>,
        variable |-> <<>>, object |-> <<>>]

\* ------------------------------------------------------------------------
\* The converter instance and the extraction loop of generate_dot
\* ------------------------------------------------------------------------

\* SWRLToDOT.__init__ ; classes is a dict, modelled as a function whose domain
\* is the set of keys
NewInstance ==
  [variables |-> {}, classes |-> <<>>, properties |-> <<>>, atoms |-> <<>>]

\* the reset without "self.properties = []"
ResetState_keepProperties(inst) ==
  [inst EXCEPT !.variables = {}, !.classes = <<>>]

\* the "Reset state" assignments at the start of generate_dot
ResetState(inst) ==
  [inst EXCEPT !.variables = {}, !.classes = <<>>, !.properties = <<>>]

\* f"{atom['prefix']}:{atom['class']}" and f"{atom['prefix']}:{atom['property']}"
Qualified(atom) == atom.prefix \o <<":">> \o atom.name

\* self.classes[var].append(...) after "if var not in self.classes"
AppendClass(classes, var, info) ==
  [v \in (DOMAIN classes) \cup {var} |->
     IF v = var
     THEN (IF var \in DOMAIN classes THEN classes[var] ELSE <<>>) \o <<info>>
     ELSE classes[v]]

\* a relation list that keeps one copy of identical relations
AppendProperty_unique(properties, prop) ==
  IF \E i \in 1..Len(properties) : properties[i] = prop
  THEN properties ELSE properties \o <<prop>>

\* self.properties.append(...)
AppendProperty(properties, prop) == properties \o <<prop>>

\* the body of the loop "for atom in all_atoms"
ExtractAtom(inst, atom) ==
  IF atom.type = "class"
  THEN [inst EXCEPT
          !.variables = @ \cup {atom.variable},
          !.classes = AppendClass(@, atom.variable,
                                  [class |-> Qualified(atom), part |-> atom.part])]
  ELSE [inst EXCEPT
          !.variables = @ \cup {atom.variable}
                          \cup (IF StartsWithQ(atom.object) THEN {atom.object} ELSE {}),
          !.properties = AppendProperty(@,
                            [subject |-> atom.variable, predicate |-> Qualified(atom),
                             object |-> atom.object, part |-> atom.part])]

RECURSIVE ExtractAll(_, _)
ExtractAll(inst, atoms) ==
  IF atoms = <<>> THEN inst
  ELSE ExtractAll(ExtractAtom(inst, Head(atoms)), Tail(atoms))

\* ------------------------------------------------------------------------
\* _create_dot_graph
\* ------------------------------------------------------------------------

Q == "\""
Indent == "    "

RECURSIVE Flatten(_)
Flatten(ss) == IF ss = <<>> THEN <<>> ELSE Head(ss) \o Flatten(Tail(ss))

\* '\n'.join(lines)
RECURSIVE JoinLines(_)
JoinLines(lines) ==
  IF lines = <<>> THEN <<>>
  ELSE IF Len(lines) = 1 THEN lines[1]
  ELSE lines[1] \o <<"\n">> \o JoinLines(Tail(lines))

ClassNodeLine(cls) ==
  <<Indent, Q>> \o cls \o <<Q, " [shape=ellipse, fillcolor=lightgreen, style=filled];">>

VariableNodeLine(var) ==
  <<Indent, Q>> \o var \o <<Q, " [label=", Q>> \o var
     \o <<Q, ", fillcolor=lightblue, style=", Q, "rounded,filled", Q, "];">>

LiteralNodeLine(literal) ==
  <<Indent, Q>> \o literal \o <<Q, " [shape=box, style=filled, fillcolor=lightyellow];">>

TypeEdgeLine(info, var) ==
  <<Indent, Q>> \o info.class \o <<Q, " -> ", Q>> \o var \o <<Q, " [label=", Q, "rdf:type", Q>>
     \o (IF info.part = "consequent"
         THEN <<", color=blue, penwidth=2, style=dashed];">>
         ELSE <<", style=dashed];">>)

PropertyEdgeLine(prop) ==
  <<Indent, Q>> \o prop.subject \o <<Q, " -> ", Q>> \o prop.object
     \o <<Q, " [label=", Q>> \o prop.predicate \o <<Q>>
     \o (IF prop.part = "consequent"
         THEN <<", color=blue, penwidth=2];">>
         ELSE <<"];">>)

\* all_classes: the set built from self.classes.items()
AllClasses(inst) ==
  UNION {{inst.classes[v][i].class : i \in 1..Len(inst.classes[v])} :
            v \in DOMAIN inst.classes}

\* literals: the objects of self.properties that do not start with '?'
Literals(inst) ==
  {inst.properties[i].object : i \in
      {j \in 1..Len(inst.properties) : ~StartsWithQ(inst.properties[j].object)}}

\* the rdf:type edges: for var in sorted(self.variables), if var in
\* self.classes, one line for each entry of self.classes[var]
TypeEdgeLines(inst) ==
  LET vars == Sorted(inst.variables)
      linesOf(var) ==
        IF var \in DOMAIN inst.classes
        THEN [i \in 1..Len(inst.classes[var]) |-> TypeEdgeLine(inst.classes[var][i], var)]
        ELSE <<>>
  IN Flatten([k \in 1..Len(vars) |-> linesOf(vars[k])])

\* the property edges emitted last relation first
PropertyEdgeLines_reversed(inst) ==
  [i \in 1..Len(inst.properties) |->
     PropertyEdgeLine(inst.properties[Len(inst.properties) + 1 - i])]

\* the property edges: for prop in self.properties
PropertyEdgeLines(inst) ==
  [i \in 1..Len(inst.properties) |-> PropertyEdgeLine(inst.properties[i])]

DotLines(inst) ==
  LET classes == Sorted(AllClasses(inst))
      vars == Sorted(inst.variables)
      literals == Sorted(Literals(inst))
  IN <<  <<"digraph SWRL_Rule {">>,
         <<Indent, "rankdir=LR;">>,
         <<Indent, "node [shape=box, style=rounded];">>,
         <<>>,
         <<Indent, "// Classes">> >>
     \o [i \in 1..Len(classes) |-> ClassNodeLine(classes[i])]
     \o << <<>>, <<Indent, "// Variables (Instances)">> >>
     \o [i \in 1..Len(vars) |-> VariableNodeLine(vars[i])]
     \o << <<>>, <<Indent, "// Literals">> >>
     \o [i \in 1..Len(literals) |-> LiteralNodeLine(literals[i])]
     \o << <<>>, <<Indent, "// Class Assertions (rdf:type)">> >>
     \o TypeEdgeLines(inst)
     \o << <<>>, <<Indent, "// Properties">> >>
     \o PropertyEdgeLines(inst)
     \o << <<"}">> >>

create_dot_graph(inst) == JoinLines(DotLines(inst))

\* ------------------------------------------------------------------------
\* Inputs
\* ------------------------------------------------------------------------

Chars_aB_x == <<"a", ":", "B", "(", "?", "x", ")">>
Chars_aC_y == <<"a", ":", "C", "(", "?", "y", ")">>
Chars_ap_x_y == <<"a", ":", "p", "(", "?", "x", ",", " ", "?", "y", ")">>
Chars_ap_y_aB == <<"a", ":", "p", "(", "?", "y", ",", " ", "a", ":", "B", ")">>
Chars_ap_x_quoted == <<"a", ":", "p", "(", "?", "x", ",", " ", "\"", "h", "\"", ")">>
Chars_ap_x_nested == <<"a", ":", "p", "(", "?", "x", ",", " ", "f", "(", "a", ")", ")">>
Chars_af_x_y_z ==
  <<"a", ":", "f", "(", "?", "x", ",", " ", "?", "y", ",", " ", "?", "z", ")">>
Chars_noPrefix == <<"B", "(", "?", "x", ")">>

\* the atoms rules are built from: class atoms, property atoms with a
\* variable, a class name, a quoted string and a parenthesised term as the
\* object, a three-argument built-in, an atom without prefix, the empty atom
AtomPool ==
  << Chars_aB_x, Chars_aC_y, Chars_ap_x_y, Chars_ap_y_aB, Chars_ap_x_quoted,
     Chars_ap_x_nested, Chars_af_x_y_z, Chars_noPrefix, <<>> >>

\* most atoms in a generated rule
MaxRuleAtoms == 3
\* most '->' in a generated rule
MaxArrows == 2

ArrowSep == <<" ", "-", ">", " ">>
CaretSep == <<" ", "^", " ">>

\* the rule text of the atoms AtomPool[ix[1]], ..., with '->' in the gaps of
\* arrows and '^' in the other gaps
RECURSIVE RuleText(_, _, _)
RuleText(ix, arrows, k) ==
  IF k > Len(ix) THEN <<>>
  ELSE (IF k = 1 THEN <<>> ELSE IF (k - 1) \in arrows THEN ArrowSep ELSE CaretSep)
       \o AtomPool[ix[k]] \o RuleText(ix, arrows, k + 1)

Rules ==
  UNION {{RuleText(ix, arrows, 1) :
             <<ix, arrows>> \in [1..n -> 1..Len(AtomPool)]
                                  \X {A \in SUBSET (1..(n-1)) : Cardinality(A) <= MaxArrows}} :
            n \in 1..MaxRuleAtoms}

\* rules a caller passes to one long-lived converter, one call after another
ReuseRules ==
  { RuleText(<<1, 3>>, {1}, 1),        \* a:B(?x) -> a:p(?x, ?y)
    RuleText(<<1, 1, 2>>, {2}, 1),     \* a:B(?x) ^ a:B(?x) -> a:C(?y)
    RuleText(<<3, 2, 4>>, {2}, 1),     \* a:p(?x, ?y) ^ a:C(?y) -> a:p(?y, a:B)
    RuleText(<<2, 5>>, {1}, 1),        \* a:C(?y) -> a:p(?x, "h")
    RuleText(<<1, 8>>, {1}, 1),        \* a:B(?x) -> B(?x)
    RuleText(<<1, 2>>, {}, 1),         \* a:B(?x) ^ a:C(?y)
    RuleText(<<1, 2, 3>>, {1, 2}, 1) } \* a:B(?x) -> a:C(?y) -> a:p(?x, ?y)

Paths == {"a.dot", "b.dot"}
Absent == <<"<absent>">>
OldText == <<"digraph Old {}">>

\* ------------------------------------------------------------------------
\* State
\* ------------------------------------------------------------------------

VARIABLES
  pc,                \* where the running call is
  entry,             \* "generate_dot" (on the module's converter), "swrl_to_dot" or "swrl_to_pdf"
  rule,              \* the rule argument
  output_file,       \* the output_file argument, None when not given
  self,              \* the instance generate_dot runs on
  converter,         \* the module-level SWRLToDOT instance
  antecedent_atoms,
  consequent_atoms,
  all_atoms,
  dot,               \* the local dot of generate_dot
  result,            \* what generate_dot returned, NoText when it has not
  err,               \* the exception raised, NoError when there is none
  files,             \* the file system: path -> content
  files0,            \* the file system when the call began
  rendered,          \* the DOT source handed to graphviz by swrl_to_pdf
  dirty              \* the instance held the data of an earlier rule when the call began

vars ==
  <<pc, entry, rule, output_file, self, converter, antecedent_atoms,
    consequent_atoms, all_atoms, dot, result, err, files, files0, rendered, dirty>>

Init ==
  /\ pc = "idle"
  /\ entry = None
  /\ rule = <<>>
  /\ output_file = None
  /\ self = NewInstance
  /\ converter = NewInstance
  /\ antecedent_atoms = <<>>
  /\ consequent_atoms = <<>>
  /\ all_atoms = <<>>
  /\ dot = <<>>
  /\ result = NoText
  /\ err = NoError
  /\ files = [p \in Paths |-> Absent]
  /\ files0 = [p \in Paths |-> Absent]
  /\ rendered = NoText
  /\ dirty = FALSE

\* the state a call starts in: swrl_to_dot and swrl_to_pdf build a converter
\* of their own, swrl_to_pdf passes output_file=None
Enter(e, r, o) ==
  /\ pc' = "reset"
  /\ entry' = e
  /\ rule' = r
  /\ output_file' = IF e = "swrl_to_pdf" THEN None ELSE o
  /\ self' = IF e = "generate_dot" THEN converter ELSE NewInstance
  /\ antecedent_atoms' = <<>>
  /\ consequent_atoms' = <<>>
  /\ all_atoms' = <<>>
  /\ dot' = <<>>
  /\ result' = NoText
  /\ err' = NoError
  /\ files0' = files
  /\ rendered' = NoText
  /\ dirty' = (e = "generate_dot" /\ converter # NewInstance)
  /\ UNCHANGED <<converter, files>>

Call ==
  /\ pc \in {"idle", "done", "raised"}
  /\ \E e \in {"generate_dot", "swrl_to_dot", "swrl_to_pdf"}, r \in ReuseRules,
        o \in Paths \cup {None} :
       /\ e = "swrl_to_pdf" => o = None
       /\ Enter(e, r, o)

\* the module-level converter is the object generate_dot mutates when it is
\* called on it
Alias(inst) == IF entry = "generate_dot" THEN inst ELSE converter

\* lines 62-65
Reset ==
  /\ pc = "reset"
  /\ self' = ResetState(self)
  /\ converter' = Alias(self')
  /\ pc' = "split"
  /\ UNCHANGED <<entry, rule, output_file, antecedent_atoms, consequent_atoms,
                 all_atoms, dot, result, err, files, files0, rendered, dirty>>

\* line 68
ParseRule ==
  /\ pc = "split"
  /\ LET r == parse_swrl_rule(rule)
     IN \/ /\ ~r.ok
           /\ pc' = "raised"
           /\ err' = <<"ValueError", "Invalid SWRL rule: missing '->' separator">>
           /\ UNCHANGED <<antecedent_atoms, consequent_atoms>>
        \/ /\ r.ok
           /\ pc' = "parse"
           /\ antecedent_atoms' = r.antecedent_atoms
           /\ consequent_atoms' = r.consequent_atoms
           /\ UNCHANGED err
  /\ UNCHANGED <<entry, rule, output_file, self, converter, all_atoms, dot,
                 result, files, files0, rendered, dirty>>

\* the two loops in the other order: consequent atoms first
NextAtom_consequentFirst(ant, con, k) ==
  IF k < Len(con)
  THEN [text |-> con[k + 1], part |-> "consequent"]
  ELSE [text |-> ant[k + 1 - Len(con)], part |-> "antecedent"]

\* the atom the two loops of lines 72-80 reach after k atoms were parsed
NextAtom(ant, con, k) ==
  IF k < Len(ant)
  THEN [text |-> ant[k + 1], part |-> "antecedent"]
  ELSE [text |-> con[k + 1 - Len(ant)], part |-> "consequent"]

\* one iteration of the loops of lines 72-80
ParseAtom ==
  /\ pc = "parse"
  /\ LET a == NextAtom(antecedent_atoms, consequent_atoms, Len(all_atoms))
         parsed == parse_atom(a.text)
     IN \/ /\ parsed.type = "error"
           /\ pc' = "raised"
           /\ err' = <<"ValueError", "Cannot parse atom: ">> \o a.text
           /\ UNCHANGED all_atoms
        \/ /\ parsed.type # "error"
           /\ all_atoms' = Append(all_atoms,
                 [type |-> parsed.type, prefix |-> parsed.prefix, name |-> parsed.name,
                  variable |-> parsed.variable, object |-> parsed.object,
                  part |-> a.part])
           /\ pc' = IF Len(all_atoms') = Len(antecedent_atoms) + Len(consequent_atoms)
                    THEN "extract" ELSE "parse"
           /\ UNCHANGED err
  /\ UNCHANGED <<entry, rule, output_file, self, converter, antecedent_atoms,
                 consequent_atoms, dot, result, files, files0, rendered, dirty>>

\* lines 83-104
ExtractAtoms ==
  /\ pc = "extract"
  /\ self' = ExtractAll(self, all_atoms)
  /\ converter' = Alias(self')
  /\ pc' = "create"
  /\ UNCHANGED <<entry, rule, output_file, antecedent_atoms, consequent_atoms,
                 all_atoms, dot, result, err, files, files0, rendered, dirty>>

\* line 107
CreateDot ==
  /\ pc = "create"
  /\ dot' = create_dot_graph(self)
  /\ pc' = "save"
  /\ UNCHANGED <<entry, rule, output_file, self, converter, antecedent_atoms,
                 consequent_atoms, all_atoms, result, err, files, files0,
                 rendered, dirty>>

\* open(output_file, 'a'): the text is added to what the file holds
WriteFile_append(fs, path, text) ==
  [fs EXCEPT ![path] = IF @ = Absent THEN text ELSE @ \o text]

\* open(output_file, 'w') and f.write(dot)
WriteFile(fs, path, text) == [fs EXCEPT ![path] = text]

\* lines 110-115; open() raises OSError when the path cannot be written
Save ==
  /\ pc = "save"
  /\ \/ /\ output_file = None
        /\ result' = dot
        /\ pc' = IF entry = "swrl_to_pdf" THEN "render" ELSE "done"
        /\ UNCHANGED <<files, err>>
     \/ /\ output_file # None
        /\ files' = WriteFile(files, output_file, dot)
        /\ result' = dot
        /\ pc' = "done"
        /\ UNCHANGED err
     \/ /\ output_file # None
        /\ pc' = "raised"
        /\ err' = <<"OSError">>
        /\ UNCHANGED <<files, result>>
  /\ UNCHANGED <<entry, rule, output_file, self, converter, antecedent_atoms,
                 consequent_atoms, all_atoms, dot, files0, rendered, dirty>>

\* swrl_to_pdf, lines 273-286: graphviz renders the source, or is not installed
Render ==
  /\ pc = "render"
  /\ \/ rendered' = result
     \/ UNCHANGED rendered
  /\ pc' = "done"
  /\ UNCHANGED <<entry, rule, output_file, self, converter, antecedent_atoms,
                 consequent_atoms, all_atoms, dot, result, err, files, files0, dirty>>

Next ==
  \/ Call
  \/ Reset
  \/ ParseRule
  \/ ParseAtom
  \/ ExtractAtoms
  \/ CreateDot
  \/ Save
  \/ Render

Spec == Init /\ [][Next]_vars

\* One conversion of any generated rule by swrl_to_dot, into a file system
\* where a.dot holds an older graph.
InitOne ==
  /\ \E r \in Rules, o \in {"a.dot", None} :
        /\ pc = "reset"
        /\ entry = "swrl_to_dot"
        /\ rule = r
        /\ output_file = o
  /\ self = NewInstance
  /\ converter = NewInstance
  /\ antecedent_atoms = <<>>
  /\ consequent_atoms = <<>>
  /\ all_atoms = <<>>
  /\ dot = <<>>
  /\ result = NoText
  /\ err = NoError
  /\ files = [p \in Paths |-> IF p = "a.dot" THEN OldText ELSE Absent]
  /\ files0 = files
  /\ rendered = NoText
  /\ dirty = FALSE

NextOne ==
  \/ Reset
  \/ ParseRule
  \/ ParseAtom
  \/ ExtractAtoms
  \/ CreateDot
  \/ Save

SpecOne == InitOne /\ [][NextOne]_vars

\* ------------------------------------------------------------------------
\* Properties
\* ------------------------------------------------------------------------

Range(s) == {s[i] : i \in 1..Len(s)}

RuleError == <<"ValueError", "Invalid SWRL rule: missing '->' separator">>
AtomError(atom) == <<"ValueError", "Cannot parse atom: ">> \o atom

\* number of places of the rule text where '->' stands
CountArrows(s) == Cardinality({j \in 1..(Len(s)-1) : s[j] = "-" /\ s[j+1] = ">"})

CountCarets(s) == Cardinality({j \in 1..Len(s) : s[j] = "^"})

\* the atom strings of the rule, antecedent first
AtomTexts == antecedent_atoms \o consequent_atoms

\* generate_dot has returned
Returned == result # NoText

\* nothing of a result exists: no text built, nothing returned, no file touched
NoResult == dot = <<>> /\ result = NoText /\ files = files0

\* C2: parse_swrl_rule raises exactly for the rules in which '->' occurs zero
\* times or more than once, and yields two atom lists when it occurs once; in
\* the error case generate_dot parses no atom, returns no text, writes no file.
C2_SeparatorCount ==
  pc \notin {"idle", "reset", "split"} =>
     /\ (err = RuleError) <=> (CountArrows(rule) # 1)
     /\ CountArrows(rule) # 1 =>
           /\ pc = "raised"
           /\ antecedent_atoms = <<>> /\ consequent_atoms = <<>> /\ all_atoms = <<>>
           /\ NoResult
     /\ CountArrows(rule) = 1 =>
           /\ Len(antecedent_atoms) >= 1
           /\ Len(consequent_atoms) >= 1

C2_Witness ==
  /\ pc = "raised" /\ err = RuleError
  /\ CountArrows(rule) = 2
  /\ output_file # None

\* the atoms that parse_atom rejects
BadAtoms == {k \in 1..Len(AtomTexts) : parse_atom(AtomTexts[k]).type = "error"}

\* C10: when some atom of the rule is unparsable, the error raised is the one
\* of the first such atom from the left (antecedent, then consequent), and no
\* text is built, nothing is returned and no file is written, the atoms before
\* it having been parsed.
C10_FirstBadAtomNoPartialResult ==
  /\ BadAtoms # {} =>
        /\ pc \in {"parse", "raised"}
        /\ NoResult
        /\ self = ResetState(self)
        /\ Len(all_atoms) < Min(BadAtoms)
        /\ pc = "raised" =>
              /\ err = AtomError(AtomTexts[Min(BadAtoms)])
              /\ Len(all_atoms) = Min(BadAtoms) - 1
  /\ (pc = "raised" /\ err \notin {RuleError, <<"OSError">>}) => BadAtoms # {}

C10_Witness ==
  /\ pc = "raised"
  /\ Cardinality(BadAtoms) >= 2
  /\ Len(all_atoms) >= 1
  /\ output_file # None
  /\ files0[output_file] # Absent

\* number of comma-separated arguments between the first '(' and the last ')'
\* of an atom, 0 when it has no such pair
ArgCount(atom) ==
  LET opens == {j \in 1..Len(atom) : atom[j] = "("}
      closes == {j \in 1..Len(atom) : atom[j] = ")"}
  IN IF opens = {} \/ closes = {} \/ Min(opens) > Max(closes) THEN 0
     ELSE 1 + Cardinality({j \in Min(opens)..Max(closes) : atom[j] = ","})

\* C1: an atom with three or more comma-separated arguments is never parsed
\* into a class or property record.
C1_ThreeArgumentsRejected ==
  \A k \in 1..Len(all_atoms) : ArgCount(AtomTexts[k]) < 3

\* what lies between the first comma and the rightmost ')' of an atom, trimmed
ObjectToLastParen(atom) ==
  LET commas == {j \in 1..Len(atom) : atom[j] = ","}
      closes == {j \in 1..Len(atom) : atom[j] = ")"}
  IN Strip(SubSeq(atom, Min(commas) + 1, Max(closes) - 1))

\* C8: the object of a parsed property atom is everything between the comma
\* and the rightmost ')' of the atom, trimmed.
C8_ObjectToRightmostParen ==
  \A k \in 1..Len(all_atoms) :
     all_atoms[k].type = "property" =>
        all_atoms[k].object = ObjectToLastParen(AtomTexts[k])

\* ------------------------------------------------------------------------
\* Reading the emitted text
\* ------------------------------------------------------------------------

\* text.split('\n')
RECURSIVE SplitLines(_)
SplitLines(t) ==
  LET nl == {i \in 1..Len(t) : t[i] = "\n"}
  IN IF nl = {} THEN <<t>>
     ELSE <<SubSeq(t, 1, Min(nl) - 1)>> \o SplitLines(SubSeq(t, Min(nl) + 1, Len(t)))

\* a piece of template text, as opposed to one character of a name
IsFragment(p) == p \notin Range(CharOrder)

IsStatement(line) == Len(line) >= 2 /\ line[1] = Indent /\ line[2] = Q
IsEdge(line) == IsStatement(line) /\ " -> " \in Range(line)
IsTypeEdge(line) == IsEdge(line) /\ "rdf:type" \in Range(line)
IsPropertyEdge(line) == IsEdge(line) /\ "rdf:type" \notin Range(line)
IsNode(line) == IsStatement(line) /\ " -> " \notin Range(line)
IsClassNode(line) ==
  IsNode(line) /\ " [shape=ellipse, fillcolor=lightgreen, style=filled];" \in Range(line)
IsVariableNode(line) == IsNode(line) /\ " [label=" \in Range(line)
IsLiteralNode(line) ==
  IsNode(line) /\ " [shape=box, style=filled, fillcolor=lightyellow];" \in Range(line)

\* the lines of the returned text
ResultLines == SplitLines(result)
EdgeLinesOf(lines) == SelectSeq(lines, IsEdge)
NodeLinesOf(lines) == SelectSeq(lines, IsNode)

\* the name a node statement was written for: what stands between the opening
\* quote and the quote before the first piece of template text
NodeName(line) ==
  SubSeq(line, 3, Min({j \in 3..Len(line) : IsFragment(line[j])}) - 2)

\* the double-quoted strings of a statement as a DOT scanner reads them: a
\* quote opens a string, the next quote that no backslash precedes closes it;
\* ok is FALSE when a character of a name stands outside every string or a
\* string is left open
RECURSIVE Scan(_, _, _, _, _)
Scan(line, i, open, cur, acc) ==
  IF i > Len(line) THEN [ok |-> ~open, strings |-> acc]
  ELSE IF open
  THEN IF line[i] = Q /\ (cur = <<>> \/ cur[Len(cur)] # "\\")
       THEN Scan(line, i + 1, FALSE, <<>>, Append(acc, cur))
       ELSE Scan(line, i + 1, TRUE, Append(cur, line[i]), acc)
  ELSE IF line[i] = Q THEN Scan(line, i + 1, TRUE, <<>>, acc)
  ELSE IF IsFragment(line[i]) THEN Scan(line, i + 1, FALSE, <<>>, acc)
  ELSE [ok |-> FALSE, strings |-> acc]

Strings(line) == Scan(line, 1, FALSE, <<>>, <<>>)

\* a class or literal node has its identifier; a variable node its identifier,
\* its label and its style; an edge its two endpoints and its label
ExpectedStrings(line) == IF IsEdge(line) \/ IsVariableNode(line) THEN 3 ELSE 1

Count(seq, Test(_)) == Len(SelectSeq(seq, Test))

IsClassAtom(a) == a.type = "class"
IsPropertyAtom(a) == a.type = "property"

\* C3: the text returned for a rule with A antecedent and C consequent atoms
\* (one more atom than the rule has '^' separators on each side) holds
\* exactly A + C edge statements, one rdf:type edge for each class atom and
\* one property edge for each property atom.
C3_OneEdgePerAtom ==
  Returned =>
     /\ Count(ResultLines, IsEdge) = CountCarets(rule) + 2
     /\ Count(ResultLines, IsEdge) = Len(antecedent_atoms) + Len(consequent_atoms)
     /\ Count(ResultLines, IsTypeEdge) = Count(all_atoms, IsClassAtom)
     /\ Count(ResultLines, IsPropertyEdge) = Count(all_atoms, IsPropertyAtom)

C3_Witness ==
  /\ Returned
  /\ \E i, j \in 1..Len(all_atoms) :
        i < j /\ all_atoms[i] = all_atoms[j] /\ all_atoms[i].type = "property"
  /\ \E i \in 1..Len(all_atoms) : all_atoms[i].type = "class"

\* the names the atoms of the rule reference, by role
ClassNames == {Qualified(all_atoms[k]) : k \in {i \in 1..Len(all_atoms) : IsClassAtom(all_atoms[i])}}
VariableNames ==
  {all_atoms[k].variable : k \in 1..Len(all_atoms)}
    \cup {all_atoms[k].object : k \in {i \in 1..Len(all_atoms) :
             IsPropertyAtom(all_atoms[i]) /\ StartsWithQ(all_atoms[i].object)}}
LiteralNames ==
  {all_atoms[k].object : k \in {i \in 1..Len(all_atoms) :
             IsPropertyAtom(all_atoms[i]) /\ ~StartsWithQ(all_atoms[i].object)}}

\* C5: every name referenced as a class, variable or literal has exactly one
\* node declaration in the returned text: there are as many class, variable
\* and literal declarations as distinct class names, variables and literals,
\* and no two declarations are for the same name.
C5_OneNodePerName ==
  Returned =>
     LET nodes == NodeLinesOf(ResultLines)
     IN /\ Count(nodes, IsClassNode) = Cardinality(ClassNames)
        /\ Count(nodes, IsVariableNode) = Cardinality(VariableNames)
        /\ Count(nodes, IsLiteralNode) = Cardinality(LiteralNames)
        /\ \A n \in ClassNames \cup VariableNames \cup LiteralNames :
              \E i \in 1..Len(nodes) : NodeName(nodes[i]) = n
        /\ \A i, j \in 1..Len(nodes) :
              NodeName(nodes[i]) = NodeName(nodes[j]) => i = j

\* the edge statement of one parsed atom
EdgeOfAtom(a) ==
  IF a.type = "class"
  THEN TypeEdgeLine([class |-> Qualified(a), part |-> a.part], a.variable)
  ELSE PropertyEdgeLine([subject |-> a.variable, predicate |-> Qualified(a),
                         object |-> a.object, part |-> a.part])

\* C6 as stated: the edge statements follow the order of the atoms in the rule.
C6_EdgesInAtomOrder ==
  Returned =>
     EdgeLinesOf(ResultLines) = [k \in 1..Len(all_atoms) |-> EdgeOfAtom(all_atoms[k])]

IsClassAtomOf(var, a) == a.type = "class" /\ a.variable = var

\* the rdf:type edges of the class atoms on var, in atom order
RECURSIVE TypeEdgesOn(_, _)
TypeEdgesOn(var, atoms) ==
  IF atoms = <<>> THEN <<>>
  ELSE (IF IsClassAtomOf(var, Head(atoms)) THEN <<EdgeOfAtom(Head(atoms))>> ELSE <<>>)
       \o TypeEdgesOn(var, Tail(atoms))

\* C6 amended: the property edges follow the order of the property atoms in
\* the rule; the rdf:type edges all stand before the property edges, grouped
\* by variable in lexicographic order of the variables and, for one variable,
\* in the order of its class atoms in the rule.
C6_EdgeOrder ==
  Returned =>
     LET edges == EdgeLinesOf(ResultLines)
         sortedVars == Sorted(VariableNames)
         properties == SelectSeq(all_atoms, IsPropertyAtom)
     IN edges = Flatten([k \in 1..Len(sortedVars) |-> TypeEdgesOn(sortedVars[k], all_atoms)])
                   \o [k \in 1..Len(properties) |-> EdgeOfAtom(properties[k])]

C6_Witness ==
  /\ Returned
  /\ \E i, j \in 1..Len(all_atoms) :
        i < j /\ all_atoms[i].type = "property" /\ all_atoms[j].type = "class"
  /\ \E i, j \in 1..Len(all_atoms) :
        /\ i < j /\ all_atoms[i].type = "property" /\ all_atoms[j].type = "property"
        /\ all_atoms[i] # all_atoms[j]

\* C9: in the returned text every statement scans as DOT: each identifier and
\* label is one delimited double-quoted string, and both endpoints of every
\* edge are identifiers of declared nodes.
C9_WellFormedDot ==
  Returned =>
     LET lines == ResultLines
         declared == {Strings(lines[i]).strings[1] :
                         i \in {j \in 1..Len(lines) :
                                  IsNode(lines[j]) /\ Strings(lines[j]).strings # <<>>}}
     IN \A i \in 1..Len(lines) :
           IsStatement(lines[i]) =>
              /\ Strings(lines[i]).ok
              /\ Len(Strings(lines[i]).strings) = ExpectedStrings(lines[i])
              /\ IsEdge(lines[i]) =>
                    /\ Strings(lines[i]).strings[1] \in declared
                    /\ Strings(lines[i]).strings[2] \in declared

\* C7: a call that returns returns the whole text, from the digraph header
\* to the closing brace; with an output path the file at that path holds
\* exactly the returned text and no other file changed; without one (as in
\* swrl_to_pdf) no file changed; no file changes before the text is complete.
C7_ReturnAndFile ==
  /\ Returned =>
        /\ result = dot
        /\ result = create_dot_graph(self)
        /\ Head(result) = "digraph SWRL_Rule {" /\ result[Len(result)] = "}"
        /\ output_file # None => files = [files0 EXCEPT ![output_file] = result]
        /\ output_file = None => files = files0
  /\ (~Returned /\ pc # "idle") => files = files0
  /\ entry = "swrl_to_pdf" => output_file = None /\ files = files0

C7_Witness ==
  /\ Returned
  /\ output_file # None
  /\ files0[output_file] \notin {Absent, result}
  /\ \E p \in Paths \ {output_file} : files0[p] # Absent

\* the atoms of a rule as the loops of generate_dot parse them
ParsedAtoms(r) ==
  LET p == parse_swrl_rule(r)
      n == Len(p.antecedent_atoms) + Len(p.consequent_atoms)
  IN [k \in 1..n |->
        LET a == NextAtom(p.antecedent_atoms, p.consequent_atoms, k - 1)
            parsed == parse_atom(a.text)
        IN [type |-> parsed.type, prefix |-> parsed.prefix, name |-> parsed.name,
            variable |-> parsed.variable, object |-> parsed.object, part |-> a.part]]

\* the text a converter that was just constructed returns for a rule
FreshDot(r) == create_dot_graph(ExtractAll(NewInstance, ParsedAtoms(r)))

\* C4: the text a call returns is the text a newly constructed converter
\* returns for the same rule, whatever the instance was used for before.
C4_IndependentOfEarlierCalls ==
  Returned => result = FreshDot(rule)

C4_Witness ==
  /\ Returned
  /\ entry = "generate_dot"
  /\ dirty

====
